---- MODULE Spec2Model ----
(***************************************************************************)
(* State-machine model of the e-commerce CRUD API of src/app.py: the four  *)
(* relational tables (users, products, orders, order_product) and one      *)
(* action per mutating request handler.  The read-only handlers are        *)
(* operators over the tables.  A Python dict (a request body, the result   *)
(* of schema.load) is a function whose DOMAIN is the set of keys present,  *)
(* so that data["address"] on a body without that key is a KeyError.       *)
(***************************************************************************)
EXTENDS Integers, FiniteSets, Bags, TLC

\* ---------------------------------------------------------------- bounds
\* The largest id the auto-increment counter of each table hands out.
MaxUsers == 2
MaxProducts == 2
MaxOrders == 2

\* ----------------------------------------------------------- value sets
None == "None"
Names == {"n1", "n2"}
Emails == {"e1", "e2"}
Addresses == {None, "a1"}
ProductNames == {"pa", "pb"}
Prices == {10}
DateTimes == {"d1"}

UserIds == 1..MaxUsers
ProductIds == 1..MaxProducts
OrderIds == 1..MaxOrders
Reqs == {1, 2}

VARIABLES
    users,          \* table users: id -> [name, email, address]
    products,       \* table products: id -> [product_name, price]
    orders,         \* table orders: id -> [order_date_time, user_id]
    order_product,  \* table order_product: bag of <<order_id, product_id>> rows
    nextUserId,     \* auto-increment counters of the three primary keys
    nextProductId,
    nextOrderId,
    txn,            \* add_product_to_order requests between check and commit
    pre,            \* history: the tables as the last request found them
    last            \* history: the last request and its response

tables == <<users, products, orders, order_product>>
counters == <<nextUserId, nextProductId, nextOrderId>>
vars == <<users, products, orders, order_product, nextUserId, nextProductId,
          nextOrderId, txn, pre, last>>

Snapshot ==
    [users |-> users, products |-> products, orders |-> orders,
     order_product |-> order_product]

NoBody == [k \in {} |-> None]

Response(op, id, id2, body, status, newid) ==
    [op |-> op, id |-> id, id2 |-> id2, body |-> body, status |-> status,
     newid |-> newid]

\* A handler ran to its return (or to its uncaught exception) as one request.
Reply(op, id, id2, body, status, newid) ==
    /\ last' = Response(op, id, id2, body, status, newid)
    /\ pre' = Snapshot

\* dict restricted to the keys in S: a JSON body that omits the others
Restrict(f, S) == [k \in S |-> f[k]]

\* ------------------------------------------------------- request bodies
UserFields == {"name", "email", "address"}
ProductFields == {"product_name", "price"}

UserBodiesOf(N, E, A) ==
    { Restrict(f, S) : f \in [name : N, email : E, address : A],
                       S \in SUBSET UserFields }

\* every body over the value sets, a null address included
UserBodies == UserBodiesOf(Names, Emails, Addresses)

\* the bodies the specification of the whole API draws from
UserBodiesCore == UserBodiesOf({"n1"}, Emails, {"a1"})

ProductBodies ==
    { Restrict(f, S) : f \in [product_name : ProductNames, price : Prices],
                       S \in SUBSET ProductFields }

\* An order body: user_id may name a user that does not exist (never created
\* or deleted).  A missing user_id is written 0, which is no id.
OrderBodies ==
    [order_date_time : DateTimes \cup {None}, user_id : 0..MaxUsers]

\* ------------------------------------------------------------- schemas
\* UserSchema.load: name and email are NOT NULL columns without default, so
\* required; address is nullable, so optional and may be null.  The loaded
\* dict holds exactly the keys the body held.
UserRequired == {"name", "email"}

UserSchema_load_ok(body) == UserRequired \subseteq DOMAIN body

\* ProductSchema.load: product_name and price are both required.
ProductSchema_load_ok(body) == ProductFields \subseteq DOMAIN body

\* OrderSchema.load (include_fk): order_date_time and user_id are required.
OrderSchema_load_ok(body) ==
    body.order_date_time # None /\ body.user_id # 0

\* users_schema.jsonify(user) of a User row
UserSchema_dump(id) ==
    [id |-> id, name |-> users[id].name, email |-> users[id].email,
     address |-> users[id].address]

\* --------------------------------------------------- table constraints
\* the column declared without unique=True
EmailNotUnique(email, id) == FALSE

\* users.email is unique: an INSERT or UPDATE giving row id this email is
\* rejected (IntegrityError) when another row holds it.
EmailTaken(email, id) ==
    \E u \in DOMAIN users : u # id /\ users[u].email = email

\* products.product_name is unique
ProductNameTaken(name, id) ==
    \E p \in DOMAIN products : p # id /\ products[p].product_name = name

\* orders.user_id is a foreign key to users.id: an INSERT of an order whose
\* user_id is no row of users is rejected.
UserForeignKeyFails(user_id) == user_id \notin DOMAIN users

\* the two columns declared without primary_key=True
PrimaryKeyNotEnforced(order_id, product_id) == FALSE

\* order_product has the composite primary key (order_id, product_id): an
\* INSERT of a pair the table already holds is rejected.
PrimaryKeyTaken(order_id, product_id) ==
    CopiesIn(<<order_id, product_id>>, order_product) > 0

\* order_product.order_id and .product_id are foreign keys
JunctionForeignKeyFails(order_id, product_id) ==
    order_id \notin DOMAIN orders \/ product_id \notin DOMAIN products

\* Order.products: the products joined to the order through order_product,
\* one list entry per junction row
OrderProducts(order_id) ==
    { p \in ProductIds : CopiesIn(<<order_id, p>>, order_product) > 0 }

\* the relationship declared without its secondary table
DeleteSecondaryRowsSkipped(product_id) == order_product

\* Deleting a Product deletes its rows of the secondary table of
\* Product.orders, whatever their number.
DeleteSecondaryRows(product_id) ==
    LET keep == { r \in BagToSet(order_product) : r[2] # product_id }
    IN  [r \in keep |-> order_product[r]]

\* User.orders: the orders whose user_id is this user
OrdersOfUser(id) == { o \in DOMAIN orders : orders[o].user_id = id }

\* the user's orders left as they are when the user row goes
NullOutOrdersSkipped(id) == FALSE

\* User.orders has no delete cascade, so the flush of session.delete(user)
\* sets user_id of each of the user's orders to NULL; Order.user_id is
\* Mapped[int], a NOT NULL column, so that UPDATE is rejected.
NullOutOrdersFails(id) == OrdersOfUser(id) # {}

\* create_order without its lookup of the user
UserMissingSkipped(user_id) == FALSE

\* db.session.get(User, order_data["user_id"]) finds no row
UserMissing(user_id) == user_id \notin DOMAIN users

\* add_product_to_order without its membership test
AlreadyInOrderSkipped(order_id, product_id) == FALSE

\* product in order.products, as add_product_to_order asks it
AlreadyInOrder(order_id, product_id) == product_id \in OrderProducts(order_id)

\* delete_product_from_order without its membership test
NotInOrderSkipped(order_id, product_id) == FALSE

\* product not in order.products, as delete_product_from_order asks it
NotInOrder(order_id, product_id) == product_id \notin OrderProducts(order_id)

\* ------------------------------------------------------------ /users
get_user_by_id(id) ==
    IF id \notin DOMAIN users
    THEN [status |-> 404, body |-> NoBody]
    ELSE [status |-> 200, body |-> UserSchema_dump(id)]

\* Status 500 is an uncaught exception: the tables stay as committed before
\* the request (a failed INSERT is taken to leave the id counter alone).
create_user(body) ==
    LET status ==
            IF ~UserSchema_load_ok(body) THEN 400
            \* user_data["address"] of a dict without the key: KeyError
            ELSE IF "address" \notin DOMAIN body THEN 500
            \* commit: IntegrityError of the unique email
            ELSE IF EmailTaken(body["email"], 0) THEN 500
            ELSE 201
    IN  /\ status = 201 => nextUserId <= MaxUsers
        /\ users' = IF status = 201
                    THEN [u \in DOMAIN users \cup {nextUserId} |->
                            IF u = nextUserId
                            THEN [name |-> body["name"], email |-> body["email"],
                                  address |-> body["address"]]
                            ELSE users[u]]
                    ELSE users
        /\ nextUserId' = IF status = 201 THEN nextUserId + 1 ELSE nextUserId
        /\ Reply("create_user", 0, 0, body, status,
                 IF status = 201 THEN nextUserId ELSE 0)
        /\ UNCHANGED <<products, orders, order_product, nextProductId,
                       nextOrderId, txn>>

update_user(id, body) ==
    LET status ==
            IF id \notin DOMAIN users THEN 404
            ELSE IF ~UserSchema_load_ok(body) THEN 400
            \* user_data["address"]: KeyError, before any commit
            ELSE IF "address" \notin DOMAIN body THEN 500
            ELSE IF EmailTaken(body["email"], id) THEN 500
            ELSE 200
    IN  /\ users' = IF status = 200
                    THEN [users EXCEPT ![id] =
                            [name |-> body["name"], email |-> body["email"],
                             address |-> body["address"]]]
                    ELSE users
        /\ Reply("update_user", id, 0, body, status, 0)
        /\ UNCHANGED <<products, orders, order_product, counters, txn>>

delete_user(id) ==
    LET status ==
            IF id \notin DOMAIN users THEN 404
            \* commit: IntegrityError, the DELETE is rolled back with it
            ELSE IF NullOutOrdersFails(id) THEN 500
            ELSE 200
    IN  /\ users' = IF status = 200
                    THEN [u \in DOMAIN users \ {id} |-> users[u]]
                    ELSE users
        /\ Reply("delete_user", id, 0, NoBody, status, 0)
        /\ UNCHANGED <<products, orders, order_product, counters, txn>>


\* --------------------------------------------------------- /products
get_product_by_id(id) ==
    IF id \notin DOMAIN products
    THEN [status |-> 404, body |-> NoBody]
    ELSE [status |-> 200,
          body |-> [id |-> id, product_name |-> products[id].product_name,
                    price |-> products[id].price]]

create_product(body) ==
    LET status ==
            IF ~ProductSchema_load_ok(body) THEN 400
            ELSE IF ProductNameTaken(body["product_name"], 0) THEN 500
            ELSE 201
    IN  /\ status = 201 => nextProductId <= MaxProducts
        /\ products' = IF status = 201
                       THEN [p \in DOMAIN products \cup {nextProductId} |->
                               IF p = nextProductId
                               THEN [product_name |-> body["product_name"],
                                     price |-> body["price"]]
                               ELSE products[p]]
                       ELSE products
        /\ nextProductId' = IF status = 201 THEN nextProductId + 1
                            ELSE nextProductId
        /\ Reply("create_product", 0, 0, body, status,
                 IF status = 201 THEN nextProductId ELSE 0)
        /\ UNCHANGED <<users, orders, order_product, nextUserId, nextOrderId,
                       txn>>

update_product(id, body) ==
    LET status ==
            IF id \notin DOMAIN products THEN 404
            ELSE IF ~ProductSchema_load_ok(body) THEN 400
            ELSE IF ProductNameTaken(body["product_name"], id) THEN 500
            ELSE 200
    IN  /\ products' = IF status = 200
                       THEN [products EXCEPT ![id] =
                               [product_name |-> body["product_name"],
                                price |-> body["price"]]]
                       ELSE products
        /\ Reply("update_product", id, 0, body, status, 0)
        /\ UNCHANGED <<users, orders, order_product, counters, txn>>

delete_product(id) ==
    LET status == IF id \notin DOMAIN products THEN 404 ELSE 200
    IN  /\ products' = IF status = 200
                       THEN [p \in DOMAIN products \ {id} |-> products[p]]
                       ELSE products
        /\ order_product' = IF status = 200 THEN DeleteSecondaryRows(id)
                            ELSE order_product
        /\ Reply("delete_product", id, 0, NoBody, status, 0)
        /\ UNCHANGED <<users, orders, counters, txn>>

\* ----------------------------------------------------------- /orders
get_order_by_id(id) ==
    IF id \notin DOMAIN orders
    THEN [status |-> 404, body |-> NoBody]
    ELSE [status |-> 200,
          body |-> [id |-> id, order_date_time |-> orders[id].order_date_time,
                    user_id |-> orders[id].user_id]]

create_order(body) ==
    LET status ==
            IF ~OrderSchema_load_ok(body) THEN 400
            ELSE IF UserMissing(body.user_id) THEN 404
            \* commit: the INSERT against the foreign key
            ELSE IF UserForeignKeyFails(body.user_id) THEN 500
            ELSE 201
    IN  /\ status = 201 => nextOrderId <= MaxOrders
        /\ orders' = IF status = 201
                     THEN [o \in DOMAIN orders \cup {nextOrderId} |->
                             IF o = nextOrderId
                             THEN [order_date_time |-> body.order_date_time,
                                   user_id |-> body.user_id]
                             ELSE orders[o]]
                     ELSE orders
        /\ nextOrderId' = IF status = 201 THEN nextOrderId + 1 ELSE nextOrderId
        /\ Reply("create_order", 0, 0, body, status,
                 IF status = 201 THEN nextOrderId ELSE 0)
        /\ UNCHANGED <<users, products, order_product, nextUserId,
                       nextProductId, txn>>

add_product_to_order(order_id, product_id) ==
    LET status ==
            IF order_id \notin DOMAIN orders THEN 404
            ELSE IF product_id \notin DOMAIN products THEN 404
            \* the message is returned without a status: Flask's 200
            ELSE IF AlreadyInOrder(order_id, product_id) THEN 200
            \* commit: the INSERT against the primary key
            ELSE IF PrimaryKeyTaken(order_id, product_id) THEN 500
            ELSE 200
        appended ==
            /\ status = 200
            /\ ~AlreadyInOrder(order_id, product_id)
    IN  /\ order_product' =
               IF appended
               THEN order_product (+) SetToBag({<<order_id, product_id>>})
               ELSE order_product
        /\ Reply("add_product_to_order", order_id, product_id, NoBody, status,
                 0)
        /\ UNCHANGED <<users, products, orders, counters, txn>>

delete_product_from_order(order_id, product_id) ==
    LET status ==
            IF order_id \notin DOMAIN orders THEN 404
            ELSE IF product_id \notin DOMAIN products THEN 404
            ELSE IF NotInOrder(order_id, product_id) THEN 400
            \* list.remove of an absent element raises ValueError
            ELSE IF product_id \notin OrderProducts(order_id) THEN 500
            ELSE 200
    IN  /\ order_product' =
               IF status = 200
               THEN order_product (-) SetToBag({<<order_id, product_id>>})
               ELSE order_product
        /\ Reply("delete_product_from_order", order_id, product_id, NoBody,
                 status, 0)
        /\ UNCHANGED <<users, products, orders, counters, txn>>

get_all_orders_for_userid(user_id) ==
    IF user_id \notin DOMAIN users
    THEN [status |-> 404, body |-> {}]
    ELSE [status |-> 200, body |-> OrdersOfUser(user_id)]

get_order_products_for_orderid(order_id) ==
    IF order_id \notin DOMAIN orders
    THEN [status |-> 404, body |-> {}]
    ELSE [status |-> 200, body |-> OrderProducts(order_id)]

Init ==
    /\ users = [u \in {} |-> None]
    /\ products = [p \in {} |-> None]
    /\ orders = [o \in {} |-> None]
    /\ order_product = EmptyBag
    /\ nextUserId = 1
    /\ nextProductId = 1
    /\ nextOrderId = 1
    /\ txn = [r \in Reqs |-> [pc |-> "idle", order_id |-> 0, product_id |-> 0]]
    /\ pre = Snapshot
    /\ last = Response("none", 0, 0, NoBody, 0, 0)

\* ------------------------------------- add_product_to_order, in steps
\* Request r of a concurrently served add_product_to_order runs lines
\* 297-308: both lookups and the membership test, on what is committed now.
add_product_to_order_check(r, order_id, product_id) ==
    LET status ==
            IF order_id \notin DOMAIN orders THEN 404
            ELSE IF product_id \notin DOMAIN products THEN 404
            ELSE IF AlreadyInOrder(order_id, product_id) THEN 200
            ELSE 0
    IN  /\ txn[r].pc = "idle"
        /\ IF status = 0
           THEN /\ txn' = [txn EXCEPT ![r] =
                             [pc |-> "checked", order_id |-> order_id,
                              product_id |-> product_id]]
                /\ UNCHANGED <<pre, last>>
           ELSE /\ Reply("add_product_to_order", order_id, product_id, NoBody,
                         status, 0)
                /\ UNCHANGED txn
        /\ UNCHANGED <<tables, counters>>

\* Request r runs lines 310-313: the append and the commit, whose INSERT
\* into order_product the table's keys can reject.
add_product_to_order_commit(r) ==
    LET order_id == txn[r].order_id
        product_id == txn[r].product_id
        status ==
            IF JunctionForeignKeyFails(order_id, product_id) THEN 500
            ELSE IF PrimaryKeyTaken(order_id, product_id) THEN 500
            ELSE 200
    IN  /\ txn[r].pc = "checked"
        /\ order_product' =
               IF status = 200
               THEN order_product (+) SetToBag({<<order_id, product_id>>})
               ELSE order_product
        /\ txn' = [txn EXCEPT ![r] =
                     [pc |-> "idle", order_id |-> 0, product_id |-> 0]]
        /\ Reply("add_product_to_order", order_id, product_id, NoBody, status,
                 0)
        /\ UNCHANGED <<users, products, orders, counters>>

\* ------------------------------------------------------ specifications
\* The whole API, one request at a time.
Next ==
    \/ \E body \in UserBodiesCore : create_user(body)
    \/ \E id \in UserIds, body \in UserBodiesCore : update_user(id, body)
    \/ \E id \in UserIds : delete_user(id)
    \/ \E body \in ProductBodies : create_product(body)
    \/ \E id \in ProductIds, body \in ProductBodies : update_product(id, body)
    \/ \E id \in ProductIds : delete_product(id)
    \/ \E body \in OrderBodies : create_order(body)
    \/ \E o \in OrderIds, p \in ProductIds : add_product_to_order(o, p)
    \/ \E o \in OrderIds, p \in ProductIds : delete_product_from_order(o, p)

Spec == Init /\ [][Next]_vars

\* The user and order-creation endpoints, over every user body.
NextUsers ==
    \/ \E body \in UserBodies : create_user(body)
    \/ \E id \in UserIds, body \in UserBodies : update_user(id, body)
    \/ \E id \in UserIds : delete_user(id)
    \/ \E body \in OrderBodies : create_order(body)

SpecUsers == Init /\ [][NextUsers]_vars

\* The writers of order_product, with add_product_to_order requests served
\* concurrently: each is its own transaction, and others may commit between
\* its membership test and its commit.
NextConc ==
    \/ \E body \in UserBodiesOf({"n1"}, {"e1"}, {"a1"}) : create_user(body)
    \/ \E body \in OrderBodies : create_order(body)
    \/ \E body \in ProductBodies : create_product(body)
    \/ \E id \in ProductIds : delete_product(id)
    \/ \E o \in OrderIds, p \in ProductIds : delete_product_from_order(o, p)
    \/ \E r \in Reqs, o \in OrderIds, p \in ProductIds :
          add_product_to_order_check(r, o, p)
    \/ \E r \in Reqs : add_product_to_order_commit(r)

SpecConc == Init /\ [][NextConc]_vars

\* -------------------------------------------------------------- claims
PairCount(order_id, product_id) ==
    CopiesIn(<<order_id, product_id>>, order_product)

PrePairCount(order_id, product_id) ==
    CopiesIn(<<order_id, product_id>>, pre.order_product)

TablesAsBefore == Snapshot = pre

\* C1: for an existing order o and an existing product p, a second
\* add_product_to_order(o, p) right after a first one finds both answered
\* 200, leaves p exactly once in o's products and changes no junction row.
C1_AddTwice ==
    [][ ( /\ last.op = "add_product_to_order"
          /\ last.id \in DOMAIN orders
          /\ last.id2 \in DOMAIN products
          /\ last'.op = "add_product_to_order"
          /\ last'.id = last.id
          /\ last'.id2 = last.id2 )
        => ( /\ last.status = 200
             /\ last'.status = 200
             /\ CopiesIn(<<last.id, last.id2>>, order_product') = 1
             /\ order_product' = order_product ) ]_vars

\* C1 witness: an add_product_to_order that found its product already in the
\* order (the second of two calls), answered 200, the pair held once.
C1_Witness ==
    /\ last.op = "add_product_to_order"
    /\ last.status = 200
    /\ PrePairCount(last.id, last.id2) = 1
    /\ PairCount(last.id, last.id2) = 1

\* C2: every stored order's user_id is the id of a stored user.
C2_OrderUserExists ==
    \A o \in DOMAIN orders : orders[o].user_id \in DOMAIN users

\* C2 witness: delete_user was asked to delete a user who has placed orders.
C2_Witness ==
    /\ last.op = "delete_user"
    /\ last.id \in DOMAIN pre.users
    /\ \E o \in DOMAIN pre.orders : pre.orders[o].user_id = last.id

\* C3: delete_user on an existing user id returns 200 and removes that user
\* row and nothing else: the other users, every order (those of the deleted
\* user too), the products and the junction rows are as before.
C3_DeleteUserKeepsOrders ==
    ( /\ last.op = "delete_user"
      /\ last.id \in DOMAIN pre.users )
    => ( /\ last.status = 200
         /\ DOMAIN users = DOMAIN pre.users \ {last.id}
         /\ \A u \in DOMAIN users : users[u] = pre.users[u]
         /\ orders = pre.orders
         /\ products = pre.products
         /\ order_product = pre.order_product )

\* C4: create_order with a valid body whose user_id is no stored user
\* returns 404 and leaves every table as it was.
C4_CreateOrderUnknownUser ==
    ( /\ last.op = "create_order"
      /\ OrderSchema_load_ok(last.body)
      /\ last.body.user_id \notin DOMAIN pre.users )
    => ( /\ last.status = 404
         /\ TablesAsBefore )

\* C4 witness: such a request arrived when orders were already stored.
C4_Witness ==
    /\ last.op = "create_order"
    /\ OrderSchema_load_ok(last.body)
    /\ last.body.user_id \notin DOMAIN pre.users
    /\ DOMAIN pre.orders # {}
    /\ DOMAIN pre.users # {}

\* C5: delete_product_from_order(o, p), o and p stored and p not in o,
\* returns 400 and leaves the product set of every order unchanged.
C5_RemoveAbsentProduct ==
    ( /\ last.op = "delete_product_from_order"
      /\ last.id \in DOMAIN pre.orders
      /\ last.id2 \in DOMAIN pre.products
      /\ PrePairCount(last.id, last.id2) = 0 )
    => ( /\ last.status = 400
         /\ order_product = pre.order_product )

\* C5 witness: such a request, while the order holds another product and
\* another order holds the product asked for.
C5_Witness ==
    /\ last.op = "delete_product_from_order"
    /\ last.id \in DOMAIN pre.orders
    /\ last.id2 \in DOMAIN pre.products
    /\ PrePairCount(last.id, last.id2) = 0
    /\ OrderProducts(last.id) # {}
    /\ \E o \in DOMAIN orders : o # last.id /\ PairCount(o, last.id2) = 1

\* C6: order_product holds each (order_id, product_id) pair at most once,
\* also when add_product_to_order requests for the same pair interleave
\* between their membership test and their commit.
C6_JunctionPairsUnique ==
    \A o \in OrderIds, p \in ProductIds : PairCount(o, p) <= 1

\* C6 witness: a request that had passed the membership test found, at its
\* commit, the pair inserted by another request.
C6_Witness ==
    /\ last.op = "add_product_to_order"
    /\ last.status = 500
    /\ last.id \in DOMAIN orders
    /\ last.id2 \in DOMAIN products
    /\ PairCount(last.id, last.id2) = 1

\* C7: create_user with a body that passes validation (name and email
\* present, address present, null or omitted) returns 201 with a new id,
\* and get_user_by_id of that id returns 200 with the name, email and
\* address submitted (no address when it was omitted).
C7_CreateThenGet ==
    ( /\ last.op = "create_user"
      /\ UserSchema_load_ok(last.body) )
    => ( /\ last.status = 201
         /\ last.newid \notin DOMAIN pre.users
         /\ get_user_by_id(last.newid).status = 200
         /\ get_user_by_id(last.newid).body.name = last.body["name"]
         /\ get_user_by_id(last.newid).body.email = last.body["email"]
         /\ get_user_by_id(last.newid).body.address =
                IF "address" \in DOMAIN last.body THEN last.body["address"]
                ELSE None )

\* C8: delete_product on a stored product returns 200, removes the product
\* row and every junction row of that product, and leaves the orders, the
\* other products and the other junction rows as they were.
C8_DeleteProductCascade ==
    ( /\ last.op = "delete_product"
      /\ last.id \in DOMAIN pre.products )
    => ( /\ last.status = 200
         /\ DOMAIN products = DOMAIN pre.products \ {last.id}
         /\ \A p \in DOMAIN products : products[p] = pre.products[p]
         /\ orders = pre.orders
         /\ \A o \in OrderIds : PairCount(o, last.id) = 0
         /\ \A o \in OrderIds, p \in ProductIds \ {last.id} :
               PairCount(o, p) = PrePairCount(o, p) )

\* C8 witness: the deleted product was in an order that holds another
\* product too, which it still holds.
C8_Witness ==
    /\ last.op = "delete_product"
    /\ last.id \in DOMAIN pre.products
    /\ \E o \in DOMAIN orders, p \in DOMAIN products :
          /\ PrePairCount(o, last.id) = 1
          /\ PairCount(o, p) = 1

\* C9: update_user returns 404 for an absent id whatever the body; for a
\* stored id and an invalid body 400 with the users unchanged; for a stored
\* id and a valid body 200, with name, email and address of that user
\* overwritten, every other user and every order unchanged.
C9_UpdateUser ==
    last.op = "update_user"
    => IF last.id \notin DOMAIN pre.users
       THEN last.status = 404
       ELSE IF ~UserSchema_load_ok(last.body)
       THEN last.status = 400 /\ users = pre.users
       ELSE /\ last.status = 200
            /\ DOMAIN users = DOMAIN pre.users
            /\ users[last.id].name = last.body["name"]
            /\ users[last.id].email = last.body["email"]
            /\ users[last.id].address =
                   IF "address" \in DOMAIN last.body
                   THEN last.body["address"] ELSE None
            /\ \A u \in DOMAIN users \ {last.id} : users[u] = pre.users[u]
            /\ orders = pre.orders

UniqueEmails ==
    \A u, v \in DOMAIN users : users[u].email = users[v].email => u = v

\* the request gives an email that another stored user holds
EmailOfAnother ==
    /\ last.op \in {"create_user", "update_user"}
    /\ "email" \in DOMAIN last.body
    /\ \E u \in DOMAIN pre.users :
          u # last.id /\ pre.users[u].email = last.body["email"]

\* C10 as stated: no two users share an email, and every create_user or
\* update_user request giving the email of another stored user ends as a
\* server error (not a 4xx) with the users unchanged.
C10_DuplicateEmailAlways500 ==
    /\ UniqueEmails
    /\ EmailOfAnother => (last.status = 500 /\ users = pre.users)

\* C10 amended: no two users share an email, and a create_user or
\* update_user request that gives the email of another stored user, passes
\* validation and (update_user) names a stored id ends as a server error
\* with the users unchanged; one that fails validation is answered 400 and
\* an update_user of an absent id 404, the users unchanged as well.
C10_DuplicateEmail ==
    /\ UniqueEmails
    /\ EmailOfAnother =>
          /\ users = pre.users
          /\ last.status =
                IF last.op = "update_user" /\ last.id \notin DOMAIN pre.users
                THEN 404
                ELSE IF ~UserSchema_load_ok(last.body) THEN 400
                ELSE 500

\* C10 witness: an update_user with a complete body gave a stored user the
\* email of another one and was rejected by the unique constraint.
C10_Witness ==
    /\ EmailOfAnother
    /\ last.op = "update_user"
    /\ last.id \in DOMAIN pre.users
    /\ DOMAIN last.body = UserFields
    /\ last.status = 500
====
